---- MODULE Spec2Model ----
(***************************************************************************)
(* Blue Marble template engine (src/src/Template.js): the tile chunker     *)
(* (Template.createTemplateTiles), the chunk indexes (buildTileIndex,      *)
(* buildCenterPixelIndex) and the pixel diff of                            *)
(* TemplateManager.drawTemplateOnTile, legacy and optimized path.          *)
(*                                                                         *)
(* Representation.  A pixel is the tuple <<r, g, b, a>> of its four bytes. *)
(* A bitmap / ImageData is [width, height, data] with data a function on   *)
(* <<x, y>>; the byte index (y * width + x) * 4 + c of the source is the   *)
(* component c + 1 of data[<<x, y>>].  A string made of comma separated    *)
(* decimal fields is the sequence of its fields, each field the sequence   *)
(* of its decimal digits, so that split(',') is the identity on the        *)
(* sequence and toString / padStart / Number do real work.  The colour key *)
(* `${r},${g},${b}` is <<r, g, b>> and the pixel key `${gx},${gy}` is      *)
(* <<gx, gy>>.                                                             *)
(***************************************************************************)
EXTENDS Integers, Sequences, FiniteSets, TLC

\* ------------------------------------------------------------------ bounds
MaxW == 2
MaxH == 2
MaxStride == 1
MaxCreates == 1
MaxTemplates == 1
ChunkMaxW == 3
ChunkMaxH == 2

\* ------------------------------------------------------- program constants
shreadSize == 3
tileSize == 1000
drawMult == 3
keyTileSize == 1000
\* The default of the tileSize parameter of the Template constructor.
templateTileSize == 1000

\* ------------------------------------------------------------------ pixels
Transparent == <<0, 0, 0, 0>>
Black == <<0, 0, 0, 255>>
Red == <<255, 0, 0, 255>>
Green == <<0, 255, 0, 255>>
Palette == <<Transparent, Black, Red, Green>>

Min(a, b) == IF a < b THEN a ELSE b

\* (r << 16) | (g << 8) | b on three bytes
Pack(r, g, b) == r * 65536 + g * 256 + b

\* A canvas stores premultiplied colour: a pixel of alpha 0 reads back as
\* transparent black.
Premul(p) == IF p[4] = 0 THEN Transparent ELSE p

\* ----------------------------------------------------------------- strings
RECURSIVE toString(_)
toString(n) == IF n < 10 THEN <<n>> ELSE Append(toString(n \div 10), n % 10)

RECURSIVE padStart(_, _)
padStart(s, len) == IF Len(s) >= len THEN s ELSE padStart(<<0>> \o s, len)

RECURSIVE Number(_)
Number(s) == IF Len(s) = 0 THEN 0
             ELSE Number(SubSeq(s, 1, Len(s) - 1)) * 10 + s[Len(s)]

\* The two tile fields in the other order.
TileYXOf(key) == <<key[2], key[1]>>

\* key.split(',').slice(0, 2).join(',')
TileXYOf(key) == SubSeq(key, 1, 2)

\* ------------------------------------------------------------ input images
\* The uploaded files: w x h images whose pixels walk the palette from entry
\* s with stride k (k = 0 is a single-colour image).
ImagePixel(w, s, k, x, y) == Palette[((s + k * (x + w * y)) % Len(Palette)) + 1]

Image(w, h, s, k) ==
  [width |-> w, height |-> h,
   data |-> [p \in (0 .. w - 1) \X (0 .. h - 1) |-> ImagePixel(w, s, k, p[1], p[2])]]

ImagesUpTo(mw, mh) == {Image(w, h, s, k) : w \in 1 .. mw, h \in 1 .. mh,
                                         s \in 0 .. Len(Palette) - 1, k \in 0 .. MaxStride}
Images == ImagesUpTo(MaxW, MaxH)
\* The images of full size: what the canvas shows around a template.
FullImages == {img \in Images : img.width = MaxW /\ img.height = MaxH}
ChunkImages == ImagesUpTo(ChunkMaxW, ChunkMaxH)
\* The files without a pixel: zero width, zero height, or both.
EmptyImages == {Image(w, h, 0, 0) : w \in 0 .. ChunkMaxW, h \in 0 .. ChunkMaxH} \ ChunkImages

\* Top-left corners (tileX, tileY, pixelX, pixelY): tile-aligned, or on the
\* last pixel of a tile in both axes.
OriginOffsets == {0, tileSize - 1}
Origins == {<<0, 0, px, px>> : px \in OriginOffsets}
\* For the chunker alone: every mix of aligned and unaligned axes, the last
\* and the last but one pixel of a tile, and a second tile row.
ChunkOffsets == {0, tileSize - 1, tileSize - 2}
ChunkOrigins == {<<0, ty, px, py>> : ty \in 0 .. 1, px \in ChunkOffsets, py \in ChunkOffsets}

\* -------------------------------------------------------- ordered objects
\* A JS object with string keys: the sequence of its [key, val] entries in
\* insertion order.
ObjKeys(o) == [i \in 1 .. Len(o) |-> o[i].key]
ObjHas(o, k) == \E i \in 1 .. Len(o) : o[i].key = k
ObjGet(o, k) == o[CHOOSE i \in 1 .. Len(o) : o[i].key = k].val
ObjSet(o, k, v) ==
  IF ObjHas(o, k)
  THEN [i \in 1 .. Len(o) |-> IF o[i].key = k THEN [key |-> k, val |-> v] ELSE o[i]]
  ELSE Append(o, [key |-> k, val |-> v])

\* ----------------------------------------------------------------- Template
\* new Template({...}): the fields the engine uses.
NewTemplate(sortID, coords) ==
  [sortID |-> sortID, coords |-> coords, chunked |-> <<>>,
   tileSize |-> templateTileSize, pixelCount |-> 0,
   placedPixelKeys |-> {}, wrongPixelKeys |-> {},
   colorsUsed |-> <<>>, activeColors |-> {},
   centerPixelIndex |-> <<>>, tileIndex |-> <<>>]

\* this.colorsUsed.set(key, (this.colorsUsed.get(key) || 0) + 1)
CountColor(colorsUsed, key) ==
  ObjSet(colorsUsed, key, (IF ObjHas(colorsUsed, key) THEN ObjGet(colorsUsed, key) ELSE 0) + 1)

ColorKeys(colorsUsed) == {colorsUsed[i].key : i \in 1 .. Len(colorsUsed)}

\* context.drawImage(bitmap, sx, sy, sw, sh, 0, 0, sw * N, sh * N) with
\* smoothing disabled, then getImageData: nearest-neighbour upscale.
DrawUpscaled(bitmap, sx, sy, sw, sh) ==
  [width |-> sw * shreadSize, height |-> sh * shreadSize,
   data |-> [p \in (0 .. sw * shreadSize - 1) \X (0 .. sh * shreadSize - 1) |->
               Premul(bitmap.data[<<sx + (p[1] \div shreadSize), sy + (p[2] \div shreadSize)>>])]]

\* The center test with "or" for "and": whole center rows and columns kept.
ShreadRowOrColumn(imageData) ==
  [imageData EXCEPT !.data =
     [p \in DOMAIN imageData.data |->
        IF p[1] % shreadSize = 1 \/ p[2] % shreadSize = 1
        THEN imageData.data[p]
        ELSE [imageData.data[p] EXCEPT ![4] = 0]]]

\* The body of the per-pixel loop of createTemplateTiles on the alpha
\* channel: non-center pixels get alpha 0.
Shread(imageData) ==
  [imageData EXCEPT !.data =
     [p \in DOMAIN imageData.data |->
        IF p[1] % shreadSize = 1 /\ p[2] % shreadSize = 1
        THEN imageData.data[p]
        ELSE [imageData.data[p] EXCEPT ![4] = 0]]]

\* The same loop on the histogram: the pixels are visited row by row
\* (for y, for x) and a center pixel of non-zero alpha counts once.
VisitOrder(imageData) ==
  [i \in 1 .. imageData.width * imageData.height |->
     <<(i - 1) % imageData.width, (i - 1) \div imageData.width>>]

RECURSIVE CountEach(_, _, _, _)
CountEach(imageData, counted, i, colorsUsed) ==
  IF i > Len(counted) THEN colorsUsed
  ELSE LET px == imageData.data[counted[i]]
       IN  CountEach(imageData, counted, i + 1, CountColor(colorsUsed, <<px[1], px[2], px[3]>>))

ShreadCount(imageData, colorsUsed) ==
  LET isCounted(p) == /\ p[1] % shreadSize = 1 /\ p[2] % shreadSize = 1
                      /\ imageData.data[p][4] # 0
  IN  CountEach(imageData, SelectSeq(VisitOrder(imageData), isCounted), 1, colorsUsed)

\* context.putImageData(imageData, 0, 0) followed by createImageBitmap(canvas)
PutImageData(imageData) ==
  [imageData EXCEPT !.data = [p \in DOMAIN imageData.data |-> Premul(imageData.data[p])]]

\* createImageBitmap(this.file): the promise rejects with InvalidStateError
\* when the file has no pixel, or resolves with the decoded bitmap.
createImageBitmapAny(file) == [ok |-> TRUE, bitmap |-> file]

createImageBitmap(file) ==
  IF file.width = 0 \/ file.height = 0 THEN [ok |-> FALSE, bitmap |-> file]
  ELSE [ok |-> TRUE, bitmap |-> file]

\* The key without the offsets in the tile.
templateTileNameTileOnly(coords, pixelX, pixelY) ==
  << padStart(toString(coords[1] + (pixelX \div keyTileSize)), 4),
     padStart(toString(coords[2] + (pixelY \div keyTileSize)), 4),
     padStart(toString(0), 3),
     padStart(toString(0), 3) >>

\* Creates the "0000,0000,000,000" key name.
templateTileName(coords, pixelX, pixelY) ==
  << padStart(toString(coords[1] + (pixelX \div keyTileSize)), 4),
     padStart(toString(coords[2] + (pixelY \div keyTileSize)), 4),
     padStart(toString(pixelX % keyTileSize), 3),
     padStart(toString(pixelY % keyTileSize), 3) >>

\* Center-pixel index of one chunk, sampled from imageData.
CenterData(imageData, N) ==
  LET chunkWidthPx == imageData.width \div N
      chunkHeightPx == imageData.height \div N
  IN  [width |-> chunkWidthPx, height |-> chunkHeightPx,
       data |-> [i \in 0 .. chunkWidthPx * chunkHeightPx - 1 |->
                   LET px == imageData.data[<<(i % chunkWidthPx) * N + 1,
                                              (i \div chunkWidthPx) * N + 1>>]
                   IN  IF px[4] = 0 THEN 0 ELSE Pack(px[1], px[2], px[3])]]

\* One iteration of the inner loop of createTemplateTiles: the chunk whose
\* origin is (pixelX, pixelY).  st = [t: the template, templateTiles].
ChunkStep(st, bitmap, pixelX, pixelY, drawSizeX, drawSizeY) ==
  LET t == st.t
      drawn == DrawUpscaled(bitmap, pixelX - t.coords[3], pixelY - t.coords[4],
                            drawSizeX, drawSizeY)
      imageData == Shread(drawn)
      name == templateTileName(t.coords, pixelX, pixelY)
      tileXY == TileXYOf(name)
      list == IF ObjHas(t.tileIndex, tileXY) THEN ObjGet(t.tileIndex, tileXY) ELSE <<>>
  IN  [t |-> [t EXCEPT
                !.colorsUsed = ShreadCount(imageData, t.colorsUsed),
                !.centerPixelIndex = ObjSet(t.centerPixelIndex, name, CenterData(imageData, shreadSize)),
                !.tileIndex = ObjSet(t.tileIndex, tileXY, Append(list, name))],
       templateTiles |-> ObjSet(st.templateTiles, name, PutImageData(imageData))]

\* A chunk cut at the image's far edge only, as if the image began on a tile
\* border.
DrawSizeNoOffset(size, pixel, origin, extent) ==
  Min(size, extent - (pixel - origin))

\* Math.min(this.tileSize - (pixel % this.tileSize), extent - (pixel - origin))
\* with size the tileSize of the template.
DrawSize(size, pixel, origin, extent) ==
  Min(size - (pixel % size), extent - (pixel - origin))

RECURSIVE ChunkLoopX(_, _, _, _, _)
ChunkLoopX(st, bitmap, pixelX, pixelY, drawSizeY) ==
  IF ~(pixelX < bitmap.width + st.t.coords[3]) THEN st
  ELSE LET drawSizeX == DrawSize(st.t.tileSize, pixelX, st.t.coords[3], bitmap.width)
       IN  ChunkLoopX(ChunkStep(st, bitmap, pixelX, pixelY, drawSizeX, drawSizeY),
                      bitmap, pixelX + drawSizeX, pixelY, drawSizeY)

RECURSIVE ChunkLoopY(_, _, _)
ChunkLoopY(st, bitmap, pixelY) ==
  IF ~(pixelY < bitmap.height + st.t.coords[4]) THEN st
  ELSE LET drawSizeY == DrawSize(st.t.tileSize, pixelY, st.t.coords[4], bitmap.height)
       IN  ChunkLoopY(ChunkLoopX(st, bitmap, st.t.coords[3], pixelY, drawSizeY),
                      bitmap, pixelY + drawSizeY)

\* A count of the pixels that carry a colour only.
totalPixelsPainted(bitmap) == Cardinality({p \in DOMAIN bitmap.data : bitmap.data[p][4] # 0})

\* const totalPixels = imageWidth * imageHeight
totalPixels(bitmap) == bitmap.width * bitmap.height

\* Template.createTemplateTiles on template t and its file: the template
\* after the call and the returned templateTiles (templateTilesBuffers is the
\* lossless PNG encoding of the same bitmaps).
createTemplateTiles(t, bitmap) ==
  LET t0 == [t EXCEPT !.pixelCount = totalPixels(bitmap)]
      st == ChunkLoopY([t |-> t0, templateTiles |-> <<>>], bitmap, t0.coords[4])
  IN  [t |-> [st.t EXCEPT !.activeColors = st.t.activeColors \union ColorKeys(st.t.colorsUsed)],
       templateTiles |-> st.templateTiles]

\* Template.buildTileIndex
RECURSIVE TileIndexLoop(_, _, _)
TileIndexLoop(chunked, i, tileIndex) ==
  IF i > Len(chunked) THEN tileIndex
  ELSE LET key == chunked[i].key
           tileXY == TileXYOf(key)
           ti == IF ObjHas(tileIndex, tileXY) THEN tileIndex ELSE ObjSet(tileIndex, tileXY, <<>>)
       IN  TileIndexLoop(chunked, i + 1, ObjSet(ti, tileXY, Append(ObjGet(ti, tileXY), key)))

\* The index left as it was, to be built later.
buildTileIndexDeferred(t) == t

buildTileIndex(t) == [t EXCEPT !.tileIndex = TileIndexLoop(t.chunked, 1, <<>>)]

\* The histogram part of the loop of buildCenterPixelIndex over one chunk.
RECURSIVE CenterCount(_, _, _, _)
CenterCount(tplImage, N, i, colorsUsed) ==
  LET chunkWidthPx == tplImage.width \div N
      chunkHeightPx == tplImage.height \div N
  IN  IF i >= chunkWidthPx * chunkHeightPx THEN colorsUsed
      ELSE LET px == tplImage.data[<<(i % chunkWidthPx) * N + 1, (i \div chunkWidthPx) * N + 1>>]
           IN  CenterCount(tplImage, N, i + 1,
                 IF px[4] = 0 THEN colorsUsed
                 ELSE CountColor(colorsUsed, <<px[1], px[2], px[3]>>))

RECURSIVE CenterIndexLoop(_, _, _, _)
CenterIndexLoop(chunked, N, i, acc) ==
  IF i > Len(chunked) THEN acc
  ELSE CenterIndexLoop(chunked, N, i + 1,
         [centerPixelIndex |-> ObjSet(acc.centerPixelIndex, chunked[i].key,
                                      CenterData(chunked[i].val, N)),
          colorsUsed |-> CenterCount(chunked[i].val, N, 0, acc.colorsUsed)])

\* The rebuild without the reset of colorsUsed: counts add to the old ones.
buildCenterPixelIndexNoReset(t, N) ==
  LET r == CenterIndexLoop(t.chunked, N, 1, [centerPixelIndex |-> <<>>, colorsUsed |-> t.colorsUsed])
  IN  [t EXCEPT !.centerPixelIndex = r.centerPixelIndex,
                !.colorsUsed = r.colorsUsed,
                !.activeColors = ColorKeys(r.colorsUsed)]

\* Template.buildCenterPixelIndex(drawMult)
buildCenterPixelIndex(t, N) ==
  LET r == CenterIndexLoop(t.chunked, N, 1, [centerPixelIndex |-> <<>>, colorsUsed |-> <<>>])
  IN  [t EXCEPT !.centerPixelIndex = r.centerPixelIndex,
                !.colorsUsed = r.colorsUsed,
                !.activeColors = ColorKeys(r.colorsUsed)]

\* --------------------------------------------------------- live snapshots
\* A tile blob is a tileSize x tileSize image; it is kept as the function of
\* its non-transparent pixels, every other pixel being transparent.
LivePixel(live, x, y) == IF <<x, y>> \in DOMAIN live THEN live[<<x, y>>] ELSE Transparent

\* The canvas after users painted image img with its top-left corner at
\* origin o = (tileX, tileY, pixelX, pixelY), seen through tile (tx, ty).
Snapshot(img, o, tx, ty) ==
  LET gx0 == o[1] * tileSize + o[3]
      gy0 == o[2] * tileSize + o[4]
      painted == {p \in DOMAIN img.data :
                    /\ img.data[p][4] # 0
                    /\ (gx0 + p[1]) \div tileSize = tx
                    /\ (gy0 + p[2]) \div tileSize = ty}
      local(p) == <<(gx0 + p[1]) % tileSize, (gy0 + p[2]) % tileSize>>
  IN  [q \in {local(p) : p \in painted} |->
         img.data[CHOOSE p \in painted : local(p) = q]]

Tiles == {<<tx, ty>> : tx \in 0 .. 1, ty \in 0 .. 1}
\* The blobs handed to drawTemplateOnTile for each tile: every full-size
\* image painted at every origin.
FullLives == [tile \in Tiles |-> {Snapshot(img, o, tile[1], tile[2]) : img \in FullImages, o \in Origins}]

\* --------------------------------------------------------------- the diff
Undefined == <<-1, -1, -1, -1>>

\* baseImage.data of the legacy path: the tile blob drawn at drawSizeLegacy x
\* drawSizeLegacy without smoothing, read at pixel index idx of the flat
\* array; a read past the array gives undefined.
BaseImageLegacy(live, idx) ==
  LET drawSizeLegacy == tileSize * drawMult
  IN  IF idx < 0 \/ idx >= drawSizeLegacy * drawSizeLegacy THEN Undefined
      ELSE LivePixel(live, (idx % drawSizeLegacy) \div drawMult,
                           (idx \div drawSizeLegacy) \div drawMult)

\* basePacked[dstY * tileSize + dstX] of the optimized path
BasePacked(live, dstX, dstY) ==
  LET px == LivePixel(live, dstX, dstY)
  IN  IF px[4] = 0 THEN 0 ELSE Pack(px[1], px[2], px[3])

\* The three-way update of the two sets, shared by the two paths.
\* s = [placed, wrong]
\* The transparent branch forgetting the wrong set.
UnpaintPlacedOnly(s, key) == [placed |-> s.placed \ {key}, wrong |-> s.wrong]
Unpaint(s, key) == [placed |-> s.placed \ {key}, wrong |-> s.wrong \ {key}]
MarkPlaced(s, key) == [placed |-> s.placed \union {key}, wrong |-> s.wrong \ {key}]
\* The wrong branch without the removal from placed.
MarkWrongKeepPlaced(s, key) == [placed |-> s.placed, wrong |-> s.wrong \union {key}]
\* The wrong branch with "else if": a placed pixel is only removed from
\* placed, and joins wrong on the next diff.
MarkWrongElseIf(s, key) ==
  IF key \in s.placed THEN [placed |-> s.placed \ {key}, wrong |-> s.wrong]
  ELSE [placed |-> s.placed, wrong |-> s.wrong \union {key}]
MarkWrong(s, key) == [placed |-> s.placed \ {key}, wrong |-> s.wrong \union {key}]

\* The same body without the skip of a transparent template pixel.
LegacyPixelNoSkip(s, tileKey, tplImage, live, tileXAbs, tileYAbs, x, y) ==
  LET pixelOffsetX == Number(tileKey[3])
      pixelOffsetY == Number(tileKey[4])
      centerX == (pixelOffsetX + x) * drawMult + 1
      centerY == (pixelOffsetY + y) * drawMult + 1
      tpl == tplImage.data[<<x * drawMult + 1, y * drawMult + 1>>]
      base == BaseImageLegacy(live, centerY * (tileSize * drawMult) + centerX)
      key == <<tileXAbs * tileSize + (pixelOffsetX + x), tileYAbs * tileSize + (pixelOffsetY + y)>>
  IN  IF base[4] = 0 THEN Unpaint(s, key)
      ELSE IF base[1] = tpl[1] /\ base[2] = tpl[2] /\ base[3] = tpl[3] THEN MarkPlaced(s, key)
      ELSE MarkWrong(s, key)

\* Body of the legacy loop for logical pixel (x, y) of chunk tileKey.
LegacyPixel(s, tileKey, tplImage, live, tileXAbs, tileYAbs, x, y) ==
  LET pixelOffsetX == Number(tileKey[3])
      pixelOffsetY == Number(tileKey[4])
      centerX == (pixelOffsetX + x) * drawMult + 1
      centerY == (pixelOffsetY + y) * drawMult + 1
      tpl == tplImage.data[<<x * drawMult + 1, y * drawMult + 1>>]
      base == BaseImageLegacy(live, centerY * (tileSize * drawMult) + centerX)
      key == <<tileXAbs * tileSize + (pixelOffsetX + x), tileYAbs * tileSize + (pixelOffsetY + y)>>
  IN  IF tpl[4] = 0 THEN s
      ELSE IF base[4] = 0 THEN Unpaint(s, key)
      ELSE IF base[1] = tpl[1] /\ base[2] = tpl[2] /\ base[3] = tpl[3] THEN MarkPlaced(s, key)
      ELSE MarkWrong(s, key)

\* Body of the optimized loop for logical pixel (x, y) of chunk tileKey.
OptimizedPixel(s, tileKey, centerInfo, live, tileXAbs, tileYAbs, x, y) ==
  LET dstX == Number(tileKey[3]) + x
      dstY == Number(tileKey[4]) + y
      baseVal == BasePacked(live, dstX, dstY)
      tplVal == centerInfo.data[y * centerInfo.width + x]
      key == <<tileXAbs * tileSize + dstX, tileYAbs * tileSize + dstY>>
  IN  IF dstX < 0 \/ dstY < 0 \/ dstX >= tileSize \/ dstY >= tileSize THEN s
      ELSE IF tplVal = 0 THEN s
      ELSE IF baseVal = 0 THEN Unpaint(s, key)
      ELSE IF baseVal = tplVal THEN MarkPlaced(s, key)
      ELSE MarkWrong(s, key)

\* for (y ...) for (x ...) over one chunk; i = y * chunkWidthPx + x
RECURSIVE LegacyChunk(_, _, _, _, _, _, _)
LegacyChunk(s, tileKey, tplImage, live, tileXAbs, tileYAbs, i) ==
  LET chunkWidthPx == tplImage.width \div drawMult
      chunkHeightPx == tplImage.height \div drawMult
  IN  IF i >= chunkWidthPx * chunkHeightPx THEN s
      ELSE LegacyChunk(LegacyPixel(s, tileKey, tplImage, live, tileXAbs, tileYAbs,
                                   i % chunkWidthPx, i \div chunkWidthPx),
                       tileKey, tplImage, live, tileXAbs, tileYAbs, i + 1)

RECURSIVE OptimizedChunk(_, _, _, _, _, _, _)
OptimizedChunk(s, tileKey, centerInfo, live, tileXAbs, tileYAbs, i) ==
  IF i >= centerInfo.width * centerInfo.height THEN s
  ELSE OptimizedChunk(OptimizedPixel(s, tileKey, centerInfo, live, tileXAbs, tileYAbs,
                                     i % centerInfo.width, i \div centerInfo.width),
                      tileKey, centerInfo, live, tileXAbs, tileYAbs, i + 1)

\* template.tileIndex?.get(tileCoords) || []
MatchingTiles(template, tileCoords) ==
  IF ObjHas(template.tileIndex, tileCoords) THEN ObjGet(template.tileIndex, tileCoords) ELSE <<>>

\* for (const tileKey of matchingTiles) of one template, on either path.
RECURSIVE DiffChunks(_, _, _, _, _, _, _)
DiffChunks(legacy, s, template, matchingTiles, live, tileCoords, j) ==
  IF j > Len(matchingTiles) THEN s
  ELSE LET tileKey == matchingTiles[j]
           tileXAbs == Number(tileCoords[1])
           tileYAbs == Number(tileCoords[2])
           s2 == IF legacy
                 THEN LegacyChunk(s, tileKey, ObjGet(template.chunked, tileKey), live,
                                  tileXAbs, tileYAbs, 0)
                 ELSE IF ~ObjHas(template.centerPixelIndex, tileKey) THEN s
                 ELSE OptimizedChunk(s, tileKey, ObjGet(template.centerPixelIndex, tileKey), live,
                                     tileXAbs, tileYAbs, 0)
       IN  DiffChunks(legacy, s2, template, matchingTiles, live, tileCoords, j + 1)

\* The diff of one template against the snapshot of tile tileCoords.
DiffTemplate(legacy, template, live, tileCoords) ==
  LET s == DiffChunks(legacy, [placed |-> template.placedPixelKeys, wrong |-> template.wrongPixelKeys],
                      template, MatchingTiles(template, tileCoords), live, tileCoords, 1)
  IN  [template EXCEPT !.placedPixelKeys = s.placed, !.wrongPixelKeys = s.wrong]

\* templateArray.sort((a, b) => a.sortID - b.sortID): stable, in place.
RECURSIVE SortBySortID(_)
SortBySortID(arr) ==
  IF Len(arr) <= 1 THEN arr
  ELSE LET rest == SortBySortID(SubSeq(arr, 1, Len(arr) - 1))
           e == arr[Len(arr)]
           k == Cardinality({i \in 1 .. Len(rest) : rest[i].sortID <= e.sortID})
       IN  SubSeq(rest, 1, k) \o <<e>> \o SubSeq(rest, k + 1, Len(rest))

\* tileCoords[0].toString().padStart(4, '0') + ',' + tileCoords[1]...
TileCoordsKey(tile) == << padStart(toString(tile[1]), 4), padStart(toString(tile[2]), 4) >>

\* The analysis half of drawTemplateOnTile: the templates array after the
\* call for tile `tile` with blob `live`.
DiffTile(legacy, arr, tile, live) ==
  LET tileCoords == TileCoordsKey(tile)
      templateArray == SortBySortID(arr)
      templateCount == Cardinality({i \in 1 .. Len(templateArray) :
                                      Len(MatchingTiles(templateArray[i], tileCoords)) > 0})
  IN  IF templateCount > 0
      THEN [i \in 1 .. Len(templateArray) |->
              DiffTemplate(legacy, templateArray[i], live, tileCoords)]
      ELSE templateArray

\* ------------------------------------------------------------ the overlay
\* tpl.activeColors == null: the value of the field that is no Set.
Null == {<<>>}

\* The centers the filter visits: for (y = 1; y < bh; y += drawMult)
\* for (x = 1; x < bw; x += drawMult), row by row.
FilterOrder(img) ==
  LET isVisited(p) == /\ p[1] >= 1 /\ (p[1] - 1) % drawMult = 0
                      /\ p[2] >= 1 /\ (p[2] - 1) % drawMult = 0
  IN  SelectSeq(VisitOrder(img), isVisited)

\* The body of the filter loop at center c: nothing for a transparent
\* center or an allowed colour, else alpha 0 on the clipped 3 x 3 block.
HideAllowed(img, c, activeColors) ==
  LET px == img.data[c]
  IN  IF px[4] = 0 THEN img
      ELSE IF activeColors # Null /\ <<px[1], px[2], px[3]>> \in activeColors
      THEN [img EXCEPT !.data =
              [p \in DOMAIN img.data |->
                 IF /\ p[1] - c[1] \in -1 .. 1 /\ p[2] - c[2] \in -1 .. 1
                 THEN [img.data[p] EXCEPT ![4] = 0]
                 ELSE img.data[p]]]
      ELSE img

HideDisallowed(img, c, activeColors) ==
  LET px == img.data[c]
  IN  IF px[4] = 0 THEN img
      ELSE IF activeColors # Null /\ <<px[1], px[2], px[3]>> \notin activeColors
      THEN [img EXCEPT !.data =
              [p \in DOMAIN img.data |->
                 IF /\ p[1] - c[1] \in -1 .. 1 /\ p[2] - c[2] \in -1 .. 1
                 THEN [img.data[p] EXCEPT ![4] = 0]
                 ELSE img.data[p]]]
      ELSE img

RECURSIVE FilterLoop(_, _, _, _)
FilterLoop(img, centers, i, activeColors) ==
  IF i > Len(centers) THEN img
  ELSE FilterLoop(HideDisallowed(img, centers[i], activeColors), centers, i + 1, activeColors)

\* One chunk of template tpl drawn onto the tile canvas: the chunk as stored
\* under a null allow-list, nothing under an empty one, else a copy filtered
\* on a canvas of its own.  tpl is the template after the step and draws the
\* drawImage calls made on the tile canvas.
DrawChunkInPlace(tpl, tileKey) ==
  LET bmp == ObjGet(tpl.chunked, tileKey)
      px == Number(tileKey[3])
      py == Number(tileKey[4])
      img == PutImageData(FilterLoop(bmp, FilterOrder(bmp), 1, tpl.activeColors))
  IN  IF tpl.activeColors = Null
      THEN [tpl |-> tpl,
            draws |-> << [x |-> px * drawMult, y |-> py * drawMult, bitmap |-> bmp] >>]
      ELSE IF Cardinality(tpl.activeColors) = 0 THEN [tpl |-> tpl, draws |-> << >>]
      ELSE [tpl |-> [tpl EXCEPT !.chunked = ObjSet(tpl.chunked, tileKey, img)],
            draws |-> << [x |-> px * drawMult, y |-> py * drawMult, bitmap |-> img] >>]

DrawChunk(tpl, tileKey) ==
  LET bmp == ObjGet(tpl.chunked, tileKey)
      px == Number(tileKey[3])
      py == Number(tileKey[4])
      img == PutImageData(FilterLoop(bmp, FilterOrder(bmp), 1, tpl.activeColors))
  IN  IF tpl.activeColors = Null
      THEN [tpl |-> tpl,
            draws |-> << [x |-> px * drawMult, y |-> py * drawMult, bitmap |-> bmp] >>]
      ELSE IF Cardinality(tpl.activeColors) = 0 THEN [tpl |-> tpl, draws |-> << >>]
      ELSE [tpl |-> tpl,
            draws |-> << [x |-> px * drawMult, y |-> py * drawMult, bitmap |-> img] >>]

\* for (const tileKey of keys) of one template.
RECURSIVE DrawChunks(_, _, _)
DrawChunks(st, keys, j) ==
  IF j > Len(keys) THEN st
  ELSE LET d == DrawChunk(st.tpl, keys[j])
       IN  DrawChunks([tpl |-> d.tpl, draws |-> st.draws \o d.draws], keys, j + 1)

\* for (const tpl of this.templatesArray)
RECURSIVE DrawTemplates(_, _, _)
DrawTemplates(st, tileCoords, i) ==
  IF i > Len(st.arr) THEN st
  ELSE LET d == DrawChunks([tpl |-> st.arr[i], draws |-> st.draws],
                           MatchingTiles(st.arr[i], tileCoords), 1)
       IN  DrawTemplates([arr |-> [st.arr EXCEPT ![i] = d.tpl], draws |-> d.draws],
                         tileCoords, i + 1)

\* What drawTemplateOnTile returns: tileBlob itself, or the blob of the
\* canvas, kept as the tile drawn at drawMult and the drawImage calls made
\* over it, in order.
TileBlobRedrawn(live) == [kind |-> "canvas", base |-> live, draws |-> << >>]

TileBlob(live) == [kind |-> "tileBlob", base |-> live, draws |-> << >>]
CanvasBlob(live, draws) == [kind |-> "canvas", base |-> live, draws |-> draws]
NoOut == [kind |-> "none", base |-> << >>, draws |-> << >>]

\* ------------------------------------------------------------------- state
VARIABLES
  templatesArray,          \* TemplateManager.templatesArray
  templatesJSON,           \* TemplateManager.templatesJSON ([created |-> FALSE] is null)
  storage,                 \* the value stored under 'bmTemplates'
  templatesShouldBeDrawn,  \* TemplateManager.templatesShouldBeDrawn
  useLegacyCount,          \* TemplateManager.useLegacyCount
  creating,                \* the createTemplate call in flight: its position and locals
  nCreates,                \* number of createTemplate calls so far
  last,                    \* the last operation and its arguments
  drawing,                 \* the drawTemplateOnTile call in flight: its position and locals
  importing                \* the #parseBlueMarble call in flight: its position and locals

vars == <<templatesArray, templatesJSON, storage, templatesShouldBeDrawn,
          useLegacyCount, creating, nCreates, last, drawing, importing>>

NoJSON == [created |-> FALSE, templates |-> <<>>]
NoBlob == [width |-> 0, height |-> 0, data |-> <<>>]
Idle == [pc |-> "idle", template |-> NewTemplate(0, <<>>), blob |-> NoBlob,
         templateTiles |-> <<>>]
NoLive == <<>>
Op(name) == [op |-> name, tile |-> <<0, 0>>, live |-> NoLive, diffed |-> FALSE,
             again |-> FALSE, dropped |-> FALSE, out |-> NoOut]
\* No drawTemplateOnTile call is in flight.  templateArray is the array the
\* call sorted, kept once this.templatesArray was replaced (detached).
\* No #parseBlueMarble call is in flight.  templates is json.templates, i the
\* entry the loop is at and template the Template it has constructed.
NoImport == [pc |-> "idle", templates |-> <<>>, i |-> 1, template |-> NewTemplate(0, <<>>)]
NoDraw == [pc |-> "idle", tile |-> <<0, 0>>, live |-> NoLive, detached |-> FALSE,
           templateArray |-> <<>>]

\* The placed and wrong sets of every template of an array.
Sets(arr) == [i \in 1 .. Len(arr) |->
                [placed |-> arr[i].placedPixelKeys, wrong |-> arr[i].wrongPixelKeys]]

\* Template.resetPlacedPixels / resetWrongPixels
resetPlacedPixels(t) == [t EXCEPT !.placedPixelKeys = {}]
resetWrongPixels(t) == [t EXCEPT !.wrongPixelKeys = {}]

\* The manager once createTemplate(blob, name, coords) has returned.
Created(blob, coords) ==
  LET r == createTemplateTiles(NewTemplate(0, coords), blob)
      template == buildCenterPixelIndex(
                    buildTileIndex([r.t EXCEPT !.chunked = r.templateTiles]), drawMult)
  IN  [template |-> resetPlacedPixels(template),
       json |-> [created |-> TRUE,
                 templates |-> <<[key |-> 0, val |-> [coords |-> coords, tiles |-> r.templateTiles]]>>]]

\* What an earlier session may have left under 'bmTemplates': nothing, or
\* the JSON of a template it created.
StoredImages == {img \in FullImages : img.data[<<0, 0>>] = Black /\ img.data[<<MaxW - 1, 0>>] # Black}
StoredJSONs == {NoJSON} \union {Created(blob, coords).json : blob \in StoredImages, coords \in Origins}

\* The constructor of TemplateManager.  useLegacyCount is a public field the
\* host sets before use; both settings are explored.
Init ==
  /\ templatesArray = <<>>
  /\ templatesJSON = NoJSON
  /\ storage \in StoredJSONs
  /\ templatesShouldBeDrawn = FALSE
  /\ useLegacyCount \in BOOLEAN
  /\ creating = Idle
  /\ nCreates = 0
  /\ drawing = NoDraw
  /\ importing = NoImport
  /\ last = Op("init")

\* createTemplate(blob, name, coords) up to the call of createTemplateTiles.
CreateTemplateBegin(blob, coords) ==
  /\ creating.pc = "idle"
  /\ nCreates < MaxCreates
  /\ nCreates' = nCreates + 1
  /\ templatesJSON' = IF templatesJSON.created THEN templatesJSON
                      ELSE [created |-> TRUE, templates |-> <<>>]
  /\ creating' = [pc |-> "chunk", template |-> NewTemplate(0, coords), blob |-> blob,
                  templateTiles |-> <<>>]
  /\ last' = Op("createTemplate")
  /\ UNCHANGED <<templatesArray, storage, templatesShouldBeDrawn, useLegacyCount, drawing, importing>>

\* await template.createTemplateTiles(...): createImageBitmap(this.file) and,
\* unless it rejects, the chunking.  A rejection ends createTemplate, the
\* template under construction being a local of the call.
CreateTemplateChunk ==
  /\ creating.pc = "chunk"
  /\ LET decoded == createImageBitmap(creating.blob)
         r == createTemplateTiles(creating.template, decoded.bitmap)
     IN  IF decoded.ok
         THEN /\ creating' = [creating EXCEPT !.pc = "index", !.template = r.t,
                                               !.templateTiles = r.templateTiles]
              /\ last' = Op("createTemplateTiles")
         ELSE /\ creating' = Idle
              /\ last' = Op("InvalidStateError")
  /\ UNCHANGED <<templatesArray, templatesJSON, storage, templatesShouldBeDrawn,
                 useLegacyCount, nCreates,
                 drawing, importing>>

\* template.chunked = templateTiles; buildTileIndex(); await buildCenterPixelIndex()
CreateTemplateIndex ==
  /\ creating.pc = "index"
  /\ creating' = [creating EXCEPT
       !.pc = "publish",
       !.template = buildCenterPixelIndex(
                      buildTileIndex([creating.template EXCEPT !.chunked = creating.templateTiles]),
                      drawMult)]
  /\ last' = Op("buildIndexes")
  /\ UNCHANGED <<templatesArray, templatesJSON, storage, templatesShouldBeDrawn,
                 useLegacyCount, nCreates,
                 drawing, importing>>

\* The rest of createTemplate: the JSON entry, the publication in
\* templatesArray, the reset of the placed counter and #storeTemplates.
\* templateTilesBuffers is the PNG of each chunk canvas, which decodes to the
\* chunk bitmap.
CreateTemplatePublish ==
  /\ creating.pc = "publish"
  /\ LET template == creating.template
         json == [templatesJSON EXCEPT !.templates =
                    ObjSet(templatesJSON.templates, template.sortID,
                           [coords |-> template.coords, tiles |-> creating.templateTiles])]
     IN  /\ templatesJSON' = json
         /\ storage' = json
         /\ templatesArray' = <<resetPlacedPixels(template)>>
  /\ drawing' = IF drawing.pc = "idle" \/ drawing.detached THEN drawing
                ELSE [drawing EXCEPT !.detached = TRUE, !.templateArray = templatesArray]
  /\ creating' = Idle
  /\ last' = Op("publish")
  /\ UNCHANGED <<templatesShouldBeDrawn, useLegacyCount, nCreates, importing>>

\* The template #parseBlueMarble constructs from one entry of json.templates
\* once its tiles are decoded, with its indexes built; arr is
\* this.templatesArray at that time.
ParsedTemplate(arr, entry) ==
  LET sortID == IF entry.key # 0 THEN entry.key ELSE Len(arr)
      t0 == [NewTemplate(sortID, <<>>) EXCEPT !.chunked = entry.val.tiles]
  IN  buildCenterPixelIndex(buildTileIndex(t0), drawMult)

\* The pixel count computed from the chunked bitmaps of an imported template.
computedTotalPixels(t1) ==
  LET RECURSIVE Sum(_)
      Sum(i) == IF i > Len(t1.chunked) THEN 0
                ELSE (t1.chunked[i].val.width \div drawMult)
                       * (t1.chunked[i].val.height \div drawMult) + Sum(i + 1)
  IN  Sum(1)

\* One iteration of the loop of #parseBlueMarble over json.templates.
ParseOne(arr, entry) ==
  LET t1 == ParsedTemplate(arr, entry)
  IN  Append(arr, [t1 EXCEPT !.pixelCount = computedTotalPixels(t1)])

RECURSIVE ParseBlueMarble(_, _, _)
ParseBlueMarble(arr, templates, i) ==
  IF i > Len(templates) THEN arr
  ELSE ParseBlueMarble(ParseOne(arr, templates[i]), templates, i + 1)

\* importJSON(json) with the stored JSON.
ImportJSON ==
  /\ storage.created
  /\ Len(templatesArray) + Len(storage.templates) <= MaxTemplates
  /\ templatesArray' = ParseBlueMarble(templatesArray, storage.templates, 1)
  /\ last' = Op("importJSON")
  /\ UNCHANGED <<templatesJSON, storage, templatesShouldBeDrawn, useLegacyCount,
                 creating, nCreates,
                 drawing, importing>>

\* importJSON(json) with the stored JSON, to the first await of
\* #parseBlueMarble: the tiles of an entry are being decoded.
ImportBegin ==
  /\ importing.pc = "idle"
  /\ storage.created
  /\ Len(storage.templates) > 0
  /\ Len(templatesArray) + Len(storage.templates) <= MaxTemplates
  /\ importing' = [NoImport EXCEPT !.pc = "decode", !.templates = storage.templates]
  /\ last' = Op("importJSON")
  /\ UNCHANGED <<templatesArray, templatesJSON, storage, templatesShouldBeDrawn,
                 useLegacyCount, creating, nCreates, drawing>>

\* The tiles are decoded: new Template, chunked, buildTileIndex() and the
\* call of buildCenterPixelIndex, which is awaited.
ImportBuild ==
  /\ importing.pc = "decode"
  /\ importing' = [importing EXCEPT
                     !.pc = "push",
                     !.template = ParsedTemplate(templatesArray, importing.templates[importing.i])]
  /\ last' = Op("buildIndexes")
  /\ UNCHANGED <<templatesArray, templatesJSON, storage, templatesShouldBeDrawn,
                 useLegacyCount, creating, nCreates, drawing>>

\* The pixel count and this.templatesArray.push(template); then the next
\* entry, or the end of the call.
ImportPush ==
  /\ importing.pc = "push"
  /\ templatesArray' = Append(templatesArray,
                              [importing.template EXCEPT
                                 !.pixelCount = computedTotalPixels(importing.template)])
  /\ importing' = IF importing.i < Len(importing.templates)
                  THEN [importing EXCEPT !.pc = "decode", !.i = importing.i + 1,
                                         !.template = NoImport.template]
                  ELSE NoImport
  /\ last' = Op("push")
  /\ UNCHANGED <<templatesJSON, storage, templatesShouldBeDrawn,
                 useLegacyCount, creating, nCreates, drawing>>

\* setTemplatesShouldBeDrawn(value)
SetTemplatesShouldBeDrawn(value) ==
  /\ templatesShouldBeDrawn' = value
  /\ last' = Op("setTemplatesShouldBeDrawn")
  /\ UNCHANGED <<templatesArray, templatesJSON, storage, useLegacyCount, creating, nCreates, drawing, importing>>

\* drawTemplateOnTile(tileBlob, tileCoords): the early return, the sort and
\* the diff.  last.diffed tells whether the analysis ran (templateCount > 0);
\* when seen is set the blob is kept in last.live, last.again tells that the
\* call before was the same diff of the same tile with the same blob, and
\* last.dropped that a coordinate left both sets.
Draw(tile, live, seen) ==
  /\ IF ~templatesShouldBeDrawn
     THEN /\ templatesArray' = templatesArray
          /\ last' = [Op("draw") EXCEPT !.tile = tile]
     ELSE LET ran == \E i \in 1 .. Len(templatesArray) :
                       Len(MatchingTiles(templatesArray[i], TileCoordsKey(tile))) > 0
              before == Sets(SortBySortID(templatesArray))
              after == DiffTile(useLegacyCount, templatesArray, tile, live)
          IN  /\ templatesArray' = after
              /\ last' = [op |-> "draw", tile |-> tile,
                          live |-> IF ran /\ seen THEN live ELSE NoLive,
                          diffed |-> ran,
                          again |-> /\ ran /\ seen /\ last.op = "draw" /\ last.diffed
                                    /\ last.tile = tile /\ last.live = live,
                          dropped |-> /\ ran /\ seen
                                      /\ \E i \in 1 .. Len(after) :
                                           (before[i].placed \union before[i].wrong)
                                             \ (after[i].placedPixelKeys \union after[i].wrongPixelKeys) # {},
                          out |-> NoOut]
  /\ UNCHANGED <<templatesJSON, storage, templatesShouldBeDrawn, useLegacyCount,
                 creating, nCreates,
                 drawing, importing>>

DrawTemplateOnTile(tile, live) == Draw(tile, live, FALSE)

\* The same call, its blob remembered for the statements about the diff.
DrawTemplateOnTileSeen(tile, live) == Draw(tile, live, TRUE)

\* template.resetPlacedPixels() on a loaded template
ResetPlacedPixels(i) ==
  /\ i \in 1 .. Len(templatesArray)
  /\ templatesArray' = [templatesArray EXCEPT ![i] = resetPlacedPixels(@)]
  /\ last' = Op("resetPlacedPixels")
  /\ UNCHANGED <<templatesJSON, storage, templatesShouldBeDrawn, useLegacyCount,
                 creating, nCreates,
                 drawing, importing>>

\* template.resetWrongPixels() on a loaded template
ResetWrongPixels(i) ==
  /\ i \in 1 .. Len(templatesArray)
  /\ templatesArray' = [templatesArray EXCEPT ![i] = resetWrongPixels(@)]
  /\ last' = Op("resetWrongPixels")
  /\ UNCHANGED <<templatesJSON, storage, templatesShouldBeDrawn, useLegacyCount,
                 creating, nCreates,
                 drawing, importing>>

\* drawTemplateOnTile(tileBlob, tileCoords) up to its first await: the early
\* return, the sort in place, templateCount, and the return of tileBlob
\* when no template has a chunk under the tile.
DrawBegin(tile, live) ==
  /\ drawing.pc = "idle"
  /\ IF ~templatesShouldBeDrawn
     THEN /\ templatesArray' = templatesArray
          /\ drawing' = drawing
          /\ last' = [Op("draw") EXCEPT !.tile = tile, !.live = live, !.out = TileBlob(live)]
     ELSE LET templateArray == SortBySortID(templatesArray)
              templateCount == Cardinality({i \in 1 .. Len(templateArray) :
                                 Len(MatchingTiles(templateArray[i], TileCoordsKey(tile))) > 0})
          IN  /\ templatesArray' = templateArray
              /\ IF templateCount > 0
                 THEN /\ drawing' = [pc |-> "diff", tile |-> tile, live |-> live,
                                     detached |-> FALSE, templateArray |-> <<>>]
                      /\ last' = [Op("drawBegin") EXCEPT !.tile = tile, !.live = live]
                 ELSE /\ drawing' = drawing
                      /\ last' = [Op("draw") EXCEPT !.tile = tile, !.live = live,
                                                    !.out = TileBlob(live)]
  /\ UNCHANGED <<templatesJSON, storage, templatesShouldBeDrawn, useLegacyCount,
                 creating, nCreates, importing>>

\* The call after await createImageBitmap(tileBlob): the diff of every
\* template of templateArray, up to the next await.
DrawDiff ==
  /\ drawing.pc = "diff"
  /\ LET templateArray == IF drawing.detached THEN drawing.templateArray ELSE templatesArray
         after == [i \in 1 .. Len(templateArray) |->
                     DiffTemplate(useLegacyCount, templateArray[i], drawing.live,
                                  TileCoordsKey(drawing.tile))]
     IN  IF drawing.detached
         THEN /\ templatesArray' = templatesArray
              /\ drawing' = [drawing EXCEPT !.pc = "overlay", !.templateArray = after]
         ELSE /\ templatesArray' = after
              /\ drawing' = [drawing EXCEPT !.pc = "overlay"]
  /\ last' = [Op("diff") EXCEPT !.tile = drawing.tile, !.live = drawing.live]
  /\ UNCHANGED <<templatesJSON, storage, templatesShouldBeDrawn, useLegacyCount,
                 creating, nCreates, importing>>

\* The rest of the call: the tile drawn at drawMult, every chunk that
\* this.templatesArray has under the tile drawn over it, and the blob of
\* the canvas returned.
DrawOverlay ==
  /\ drawing.pc = "overlay"
  /\ LET st == DrawTemplates([arr |-> templatesArray, draws |-> << >>],
                             TileCoordsKey(drawing.tile), 1)
     IN  /\ templatesArray' = st.arr
         /\ last' = [Op("draw") EXCEPT !.tile = drawing.tile, !.live = drawing.live,
                                       !.diffed = TRUE,
                                       !.out = CanvasBlob(drawing.live, st.draws)]
  /\ drawing' = NoDraw
  /\ UNCHANGED <<templatesJSON, storage, templatesShouldBeDrawn, useLegacyCount,
                 creating, nCreates, importing>>

Next ==
  \/ \E blob \in FullImages, coords \in Origins : CreateTemplateBegin(blob, coords)
  \/ CreateTemplateChunk
  \/ CreateTemplateIndex
  \/ CreateTemplatePublish
  \/ ImportJSON
  \/ \E value \in BOOLEAN : SetTemplatesShouldBeDrawn(value)
  \/ \E tile \in Tiles :
       \E live \in (IF templatesShouldBeDrawn THEN FullLives[tile] ELSE {NoLive}) :
         DrawTemplateOnTile(tile, live)
  \/ \E i \in 1 .. MaxTemplates : ResetPlacedPixels(i)
  \/ \E i \in 1 .. MaxTemplates : ResetWrongPixels(i)

Spec == Init /\ [][Next]_vars

\* The diff alone: a template was created and drawing switched on; tiles are
\* then diffed against every snapshot, and the sets reset, in any order.
InitDiff ==
  /\ \E blob \in Images, coords \in Origins :
       LET c == Created(blob, coords)
       IN  /\ templatesArray = <<c.template>>
           /\ templatesJSON = c.json
           /\ storage = c.json
  /\ templatesShouldBeDrawn = TRUE
  /\ useLegacyCount \in BOOLEAN
  /\ creating = Idle
  /\ nCreates = 1
  /\ drawing = NoDraw
  /\ importing = NoImport
  /\ last = Op("setTemplatesShouldBeDrawn")

NextDiff ==
  \/ \E tile \in Tiles : \E live \in FullLives[tile] : DrawTemplateOnTileSeen(tile, live)
  \/ \E i \in 1 .. MaxTemplates : ResetPlacedPixels(i)
  \/ \E i \in 1 .. MaxTemplates : ResetWrongPixels(i)

SpecDiff == InitDiff /\ [][NextDiff]_vars

\* The chunker alone: createTemplate on every image and origin, from the call
\* of createTemplateTiles to the publication.
InitChunk ==
  /\ templatesArray = <<>>
  /\ templatesJSON = [created |-> TRUE, templates |-> <<>>]
  /\ storage = NoJSON
  /\ templatesShouldBeDrawn = FALSE
  /\ useLegacyCount \in BOOLEAN
  /\ \E blob \in ChunkImages \union EmptyImages, coords \in ChunkOrigins :
       creating = [pc |-> "chunk", template |-> NewTemplate(0, coords), blob |-> blob,
                   templateTiles |-> <<>>]
  /\ nCreates = 1
  /\ drawing = NoDraw
  /\ importing = NoImport
  /\ last = Op("createTemplate")

NextChunk ==
  \/ CreateTemplateChunk
  \/ CreateTemplateIndex
  \/ CreateTemplatePublish

SpecChunk == InitChunk /\ [][NextChunk]_vars

\* The overlay: a template was created and the colour toggles of the host
\* left its public field activeColors in one of its states (null, or a set
\* of palette colours); tiles are then drawn, step by step.
PaletteKeys == {<<Palette[i][1], Palette[i][2], Palette[i][3]>> :
                  i \in {j \in 1 .. Len(Palette) : Palette[j][4] # 0}}
AllowLists == {Null} \union SUBSET PaletteKeys
OverlayLives == [tile \in Tiles |->
                   {Snapshot(img, o, tile[1], tile[2]) : img \in StoredImages, o \in Origins}]

InitOverlay ==
  /\ \E blob \in Images, coords \in Origins, allowed \in AllowLists :
       LET c == Created(blob, coords)
       IN  /\ templatesArray = <<[c.template EXCEPT !.activeColors = allowed]>>
           /\ templatesJSON = c.json
           /\ storage = c.json
  /\ templatesShouldBeDrawn = TRUE
  /\ useLegacyCount \in BOOLEAN
  /\ creating = Idle
  /\ nCreates = 1
  /\ drawing = NoDraw
  /\ importing = NoImport
  /\ last = Op("setTemplatesShouldBeDrawn")

NextOverlay ==
  \/ \E tile \in Tiles : \E live \in OverlayLives[tile] : DrawBegin(tile, live)
  \/ DrawDiff
  \/ DrawOverlay
  \/ \E value \in BOOLEAN : SetTemplatesShouldBeDrawn(value)

SpecOverlay == InitOverlay /\ [][NextOverlay]_vars

\* The chunk keys: createTemplateTiles on a template constructed with a
\* configured tileSize, its origin on a border or on the last pixel of a
\* tile of that size.
TileSizes == {templateTileSize, templateTileSize \div 2}

InitKey ==
  /\ templatesArray = <<>>
  /\ templatesJSON = [created |-> TRUE, templates |-> <<>>]
  /\ storage = NoJSON
  /\ templatesShouldBeDrawn = FALSE
  /\ useLegacyCount = TRUE
  /\ \E size \in TileSizes, blob \in ChunkImages :
       \E px \in {0, size - 1}, py \in {0, size - 1} :
         creating = [pc |-> "chunk",
                     template |-> [NewTemplate(0, <<0, 0, px, py>>) EXCEPT !.tileSize = size],
                     blob |-> blob, templateTiles |-> <<>>]
  /\ nCreates = 1
  /\ drawing = NoDraw
  /\ importing = NoImport
  /\ last = Op("createTemplate")

NextKey == CreateTemplateChunk

SpecKey == InitKey /\ [][NextKey]_vars

\* The calls interleaved at their awaits: a createTemplate, an import of the
\* stored JSON and draws of tiles run step by step in any order.
InitAsync ==
  /\ templatesArray = <<>>
  /\ templatesJSON = NoJSON
  /\ storage \in StoredJSONs
  /\ templatesShouldBeDrawn = TRUE
  /\ useLegacyCount \in BOOLEAN
  /\ creating = Idle
  /\ nCreates = 0
  /\ drawing = NoDraw
  /\ importing = NoImport
  /\ last = Op("setTemplatesShouldBeDrawn")

NextAsync ==
  \/ \E blob \in StoredImages, coords \in Origins : CreateTemplateBegin(blob, coords)
  \/ CreateTemplateChunk
  \/ CreateTemplateIndex
  \/ CreateTemplatePublish
  \/ ImportBegin
  \/ ImportBuild
  \/ ImportPush
  \/ \E tile \in Tiles : \E live \in OverlayLives[tile] : DrawBegin(tile, live)
  \/ DrawDiff
  \/ DrawOverlay

SpecAsync == InitAsync /\ [][NextAsync]_vars

\* Templates restored from storage: the stored JSON is one this program
\* wrote, or one whose only chunk is keyed on the last pixel column of its
\* tile though its bitmap is MaxW pixels wide; it is imported and tiles are
\* then diffed against every snapshot.
Rekeyed(json) ==
  [json EXCEPT !.templates[1].val.tiles =
     << [key |-> templateTileName(<<0, 0>>, tileSize - 1, 0),
         val |-> json.templates[1].val.tiles[1].val] >>]

RestoredJSONs ==
  (StoredJSONs \ {NoJSON})
    \union {Rekeyed(Created(blob, <<0, 0, 0, 0>>).json) : blob \in FullImages}

InitRestored ==
  /\ templatesArray = <<>>
  /\ templatesJSON = NoJSON
  /\ storage \in RestoredJSONs
  /\ templatesShouldBeDrawn = TRUE
  /\ useLegacyCount \in BOOLEAN
  /\ creating = Idle
  /\ nCreates = 0
  /\ drawing = NoDraw
  /\ importing = NoImport
  /\ last = Op("setTemplatesShouldBeDrawn")

NextRestored ==
  \/ ImportJSON
  \/ \E tile \in Tiles : \E live \in FullLives[tile] : DrawTemplateOnTileSeen(tile, live)
  \/ \E i \in 1 .. MaxTemplates : ResetPlacedPixels(i)
  \/ \E i \in 1 .. MaxTemplates : ResetWrongPixels(i)

SpecRestored == InitRestored /\ [][NextRestored]_vars

\* ------------------------------------------------------------------ claims
TypeOK == creating.pc \in {"idle", "chunk", "index", "publish"}

\* The logical pixels of the chunks template t has under tile `tile`, read
\* from the stored chunk bitmaps: g the global coordinate, loc the position
\* in the tile, px the center sample.
TemplatePixels(t, tile) ==
  LET keys == MatchingTiles(t, TileCoordsKey(tile))
  IN  UNION { LET bmp == ObjGet(t.chunked, keys[j])
                  ox == Number(keys[j][3])
                  oy == Number(keys[j][4])
              IN  { [g |-> <<tile[1] * tileSize + ox + x, tile[2] * tileSize + oy + y>>,
                     loc |-> <<ox + x, oy + y>>,
                     px |-> bmp.data[<<x * drawMult + 1, y * drawMult + 1>>]] :
                    x \in 0 .. (bmp.width \div drawMult) - 1,
                    y \in 0 .. (bmp.height \div drawMult) - 1 }
            : j \in 1 .. Len(keys) }

\* The template pixels that carry a colour.
Painted(t, tile) == {e \in TemplatePixels(t, tile) : e.px[4] # 0}

SameColour(p, q) == p[1] = q[1] /\ p[2] = q[2] /\ p[3] = q[3]

Diffed(l) == l.op = "draw" /\ l.diffed

\* C1: no global pixel coordinate is at the same time in placedPixelKeys and
\* in wrongPixelKeys of the same template, loaded or under construction.
C1_Disjoint ==
  /\ \A i \in 1 .. Len(templatesArray) :
       templatesArray[i].placedPixelKeys \cap templatesArray[i].wrongPixelKeys = {}
  /\ creating.template.placedPixelKeys \cap creating.template.wrongPixelKeys = {}

\* A diff has left a template with placed and with wrong pixels.
C1_Witness ==
  /\ Diffed(last)
  /\ \E i \in 1 .. Len(templatesArray) :
       /\ templatesArray[i].placedPixelKeys # {}
       /\ templatesArray[i].wrongPixelKeys # {}

\* C2: a diff that repeats the diff before it (same tile, same snapshot)
\* leaves placed and wrong of every template as the first diff left them.
C2_Idempotent ==
  [][last'.again => Sets(templatesArray') = Sets(templatesArray)]_vars

\* The same diff ran twice in a row on a template with placed and wrong pixels.
C2_Witness ==
  /\ last.again
  /\ \E i \in 1 .. Len(templatesArray) :
       /\ templatesArray[i].placedPixelKeys # {}
       /\ templatesArray[i].wrongPixelKeys # {}

\* C3: a template coordinate that is in placed or in wrong, and whose live
\* pixel is fully transparent in the snapshot a diff of its tile is given, is
\* in neither set after that diff.
C3_Regression ==
  [][Diffed(last') =>
       \A i \in 1 .. Len(templatesArray') :
         \A e \in TemplatePixels(templatesArray'[i], last'.tile) :
           LET before == Sets(SortBySortID(templatesArray))[i]
           IN  (/\ e.g \in before.placed \union before.wrong
                /\ LivePixel(last'.live, e.loc[1], e.loc[2])[4] = 0)
               => /\ e.g \notin templatesArray'[i].placedPixelKeys
                  /\ e.g \notin templatesArray'[i].wrongPixelKeys]_vars

\* A diff has removed a coordinate whose live pixel is transparent.
C3_Witness ==
  /\ Diffed(last)
  /\ last.dropped
  /\ \E i \in 1 .. Len(templatesArray) :
       \E e \in Painted(templatesArray[i], last.tile) :
         /\ LivePixel(last.live, e.loc[1], e.loc[2])[4] = 0
         /\ e.g \notin templatesArray[i].placedPixelKeys \union templatesArray[i].wrongPixelKeys

\* The class the four-way rule gives pixel e against snapshot live.
Class(e, live) ==
  LET lp == LivePixel(live, e.loc[1], e.loc[2])
  IN  IF lp[4] = 0 THEN "unplaced"
      ELSE IF SameColour(lp, e.px) THEN "placed" ELSE "wrong"

Classified(t, e, live) ==
  /\ (e.g \in t.placedPixelKeys) <=> (Class(e, live) = "placed")
  /\ (e.g \in t.wrongPixelKeys) <=> (Class(e, live) = "wrong")

\* C4: after a tile is diffed against a snapshot, every template pixel of
\* that tile's chunks is classified by the snapshot alone (painted and equal:
\* placed only; painted and different: wrong only; transparent: neither), and
\* a position without template pixel keeps the membership it had.
C4_ClassifiedBySnapshot ==
  [][Diffed(last') =>
       \A i \in 1 .. Len(templatesArray') :
         LET t == templatesArray'[i]
             before == Sets(SortBySortID(templatesArray))[i]
         IN  /\ \A e \in Painted(t, last'.tile) : Classified(t, e, last'.live)
             /\ \A e \in TemplatePixels(t, last'.tile) \ Painted(t, last'.tile) :
                  (\A f \in Painted(t, last'.tile) : f.g # e.g)
                  => /\ (e.g \in t.placedPixelKeys) <=> (e.g \in before.placed)
                     /\ (e.g \in t.wrongPixelKeys) <=> (e.g \in before.wrong)]_vars

\* C5: the legacy and the optimized diff path leave identical placed and
\* wrong sets from identical starting sets, for the tile and the snapshot of
\* every diff that runs.
C5_PathsAgree ==
  [][Diffed(last') =>
       Sets(DiffTile(TRUE, templatesArray, last'.tile, last'.live))
         = Sets(DiffTile(FALSE, templatesArray, last'.tile, last'.live))]_vars

\* The snapshot carries exactly the template's colour at every coloured
\* template pixel of the tile.
Matches(t, tile, live) ==
  \A e \in Painted(t, tile) : LivePixel(live, e.loc[1], e.loc[2]) = e.px

TileCoordinates(t, tile) == {e.g : e \in TemplatePixels(t, tile)}

\* C6: a diff against a snapshot that matches the template at every coloured
\* template pixel of the tile (opaque black included) puts every such pixel in
\* placed and none in wrong; a following diff against the same snapshot with
\* exactly one of them changed to another painted colour leaves one placed
\* pixel fewer and exactly that coordinate in wrong.
C6_MatchThenOneWrong ==
  [][Diffed(last') =>
       \A i \in 1 .. Len(templatesArray') :
         LET t == templatesArray'[i]
             tile == last'.tile
             here == TileCoordinates(t, tile)
             old == Sets(SortBySortID(templatesArray))[i]
         IN  /\ Matches(t, tile, last'.live)
                => /\ t.placedPixelKeys \cap here = {e.g : e \in Painted(t, tile)}
                   /\ t.wrongPixelKeys \cap here = {}
             /\ \A c \in Painted(t, tile) :
                  (/\ Diffed(last) /\ last.tile = tile
                   /\ Matches(t, tile, last.live)
                   /\ LivePixel(last'.live, c.loc[1], c.loc[2])[4] # 0
                   /\ ~SameColour(LivePixel(last'.live, c.loc[1], c.loc[2]), c.px)
                   /\ \A e \in Painted(t, tile) \ {c} :
                        LivePixel(last'.live, e.loc[1], e.loc[2]) = e.px)
                  => /\ Cardinality(t.placedPixelKeys \cap here)
                          = Cardinality(old.placed \cap here) - 1
                     /\ t.wrongPixelKeys \cap here = {c.g}]_vars

\* The chunks of the createTemplate call in flight, once chunked.
Chunked == creating.pc \in {"index", "publish"}

\* C7: in every chunk's packed-colour buffer, built at chunking time or
\* rebuilt by buildCenterPixelIndex, an entry is 0 exactly when the center
\* sample of the chunk bitmap at that logical position has zero alpha.
C7_ZeroMeansAbsent ==
  Chunked =>
    \A j \in 1 .. Len(creating.templateTiles) :
      LET key == creating.templateTiles[j].key
          bmp == creating.templateTiles[j].val
          info == ObjGet(creating.template.centerPixelIndex, key)
      IN  \A i \in 0 .. info.width * info.height - 1 :
            (info.data[i] = 0)
              <=> (bmp.data[<<(i % info.width) * shreadSize + 1,
                              (i \div info.width) * shreadSize + 1>>][4] = 0)

\* Chunk j of the call in flight: its tile, its local offset, its logical
\* size, parsed from its key and its bitmap, and the global pixel coordinate
\* of the image's top-left corner.
ChunkGeometry(j) ==
  LET key == creating.templateTiles[j].key
      bmp == creating.templateTiles[j].val
      coords == creating.template.coords
  IN  [tx |-> Number(key[1]), ty |-> Number(key[2]),
       ox |-> Number(key[3]), oy |-> Number(key[4]),
       w |-> bmp.width \div shreadSize, h |-> bmp.height \div shreadSize,
       x0 |-> coords[1] * tileSize + coords[3],
       y0 |-> coords[2] * tileSize + coords[4]]

\* C8: every emitted chunk has, in each axis, the logical size
\* min(tileSize - (origin mod tileSize), remaining image extent), fits in its
\* tile, and the first chunk starts at the image's offset in its tile.
C8_ChunkSizes ==
  Chunked =>
    /\ \A j \in 1 .. Len(creating.templateTiles) :
         LET c == ChunkGeometry(j)
             gx == c.tx * tileSize + c.ox
             gy == c.ty * tileSize + c.oy
         IN  /\ c.w = Min(tileSize - (gx % tileSize), creating.blob.width - (gx - c.x0))
             /\ c.h = Min(tileSize - (gy % tileSize), creating.blob.height - (gy - c.y0))
             /\ c.ox + c.w <= tileSize
             /\ c.oy + c.h <= tileSize
    /\ LET c == ChunkGeometry(1)
           coords == creating.template.coords
       IN  /\ c.ox = coords[3] /\ c.oy = coords[4]
           /\ c.w = Min(tileSize - coords[3], creating.blob.width)
           /\ c.h = Min(tileSize - coords[4], creating.blob.height)

\* An image that starts off the tile grid and crosses a tile border was chunked.
C8_Witness ==
  /\ creating.pc = "index"
  /\ creating.template.coords[3] # 0
  /\ Len(creating.templateTiles) >= 2
  /\ ChunkGeometry(1).w = tileSize - creating.template.coords[3]
  /\ ChunkGeometry(1).w < creating.blob.width

\* C9: in every chunk bitmap a pixel off the center positions (3k+1, 3m+1)
\* has alpha 0, and a center pixel has the alpha and colour of its source
\* pixel.
C9_CenterOnly ==
  Chunked =>
    \A j \in 1 .. Len(creating.templateTiles) :
      LET bmp == creating.templateTiles[j].val
          c == ChunkGeometry(j)
          gx == c.tx * tileSize + c.ox
          gy == c.ty * tileSize + c.oy
      IN  \A p \in DOMAIN bmp.data :
            IF p[1] % 3 = 1 /\ p[2] % 3 = 1
            THEN bmp.data[p] = creating.blob.data[<<gx - c.x0 + (p[1] \div 3),
                                                    gy - c.y0 + (p[2] \div 3)>>]
            ELSE bmp.data[p][4] = 0

\* A chunk bitmap with a coloured center pixel, of an image cut in chunks.
C9_Witness ==
  /\ creating.pc = "index"
  /\ Len(creating.templateTiles) >= 2
  /\ \E j \in 1 .. Len(creating.templateTiles) :
       \E p \in DOMAIN creating.templateTiles[j].val.data :
         creating.templateTiles[j].val.data[p][4] # 0

Entries(o) == {<<o[i].key, o[i].val>> : i \in 1 .. Len(o)}

\* C10: buildCenterPixelIndex on the stored chunk bitmaps yields, for every
\* chunk, the width, height and packed buffer recorded at chunking time, and
\* the histogram it regenerates is the one accumulated during chunking.
C10_RoundTrip ==
  [][(creating.pc = "index" /\ creating'.pc = "publish") =>
       /\ Entries(creating'.template.centerPixelIndex)
            = Entries(creating.template.centerPixelIndex)
       /\ Entries(creating'.template.colorsUsed) = Entries(creating.template.colorsUsed)
       /\ creating'.template.activeColors = creating.template.activeColors]_vars

\* The indexes were rebuilt for a template whose histogram counts a colour
\* more than once and has several colours.
C10_Witness ==
  /\ creating.pc = "publish"
  /\ Len(creating.template.colorsUsed) >= 2
  /\ \E i \in 1 .. Len(creating.template.colorsUsed) : creating.template.colorsUsed[i].val >= 2
  /\ Len(creating.templateTiles) >= 2

\* The chunks an overlay of tile tileCoords shows, in drawing order: each
\* is the index of its template in arr and its chunk key.  A template whose
\* allow-list is the empty set shows none.
RECURSIVE ShownChunks(_, _, _)
ShownChunks(arr, tileCoords, i) ==
  IF i > Len(arr) THEN << >>
  ELSE LET keys == MatchingTiles(arr[i], tileCoords)
       IN  (IF arr[i].activeColors = {} THEN << >>
            ELSE [j \in 1 .. Len(keys) |-> <<i, keys[j]>>])
             \o ShownChunks(arr, tileCoords, i + 1)

\* Pixel p of chunk bitmap bmp lies in the N x N block of a logical pixel
\* whose center sample is painted in a colour the allow-list leaves out.
Disallowed(t, bmp, p) ==
  LET r == (drawMult - 1) \div 2
      c == <<(p[1] \div drawMult) * drawMult + r, (p[2] \div drawMult) * drawMult + r>>
  IN  /\ t.activeColors # Null
      /\ bmp.data[c][4] # 0
      /\ <<bmp.data[c][1], bmp.data[c][2], bmp.data[c][3]>> \notin t.activeColors

Overlaid(l) == l.op = "draw" /\ l.out.kind = "canvas"

\* C11: an overlay draws, for each chunk under the tile: the chunk bitmap as
\* stored when activeColors is null; nothing when it is the empty set; else
\* the chunk bitmap with alpha 0 on the whole block of every logical pixel
\* whose painted center colour is not in activeColors, every other pixel as
\* in the chunk.
C11_AllowList ==
  Overlaid(last) =>
    LET shown == ShownChunks(templatesArray, TileCoordsKey(last.tile), 1)
    IN  /\ Len(last.out.draws) = Len(shown)
        /\ \A k \in 1 .. Len(shown) :
             LET t == templatesArray[shown[k][1]]
                 bmp == ObjGet(t.chunked, shown[k][2])
                 d == last.out.draws[k]
             IN  /\ d.x = Number(shown[k][2][3]) * drawMult
                 /\ d.y = Number(shown[k][2][4]) * drawMult
                 /\ d.bitmap.width = bmp.width /\ d.bitmap.height = bmp.height
                 /\ \A p \in DOMAIN bmp.data :
                      IF Disallowed(t, bmp, p) THEN d.bitmap.data[p][4] = 0
                      ELSE d.bitmap.data[p] = bmp.data[p]

\* An overlay drew a chunk with a painted block blanked and a painted block
\* kept.
C11_Witness ==
  /\ Overlaid(last)
  /\ \E k \in 1 .. Len(last.out.draws) :
       LET shown == ShownChunks(templatesArray, TileCoordsKey(last.tile), 1)
           t == templatesArray[shown[k][1]]
           bmp == ObjGet(t.chunked, shown[k][2])
           d == last.out.draws[k]
       IN  /\ \E p \in DOMAIN bmp.data :
                bmp.data[p][4] # 0 /\ Disallowed(t, bmp, p) /\ d.bitmap.data[p][4] = 0
           /\ \E q \in DOMAIN bmp.data :
                bmp.data[q][4] # 0 /\ ~Disallowed(t, bmp, q) /\ d.bitmap.data[q] = bmp.data[q]

\* The canonical data of the templates of an array.
Canonical(arr) ==
  [i \in 1 .. Len(arr) |->
     [chunked |-> arr[i].chunked, tileIndex |-> arr[i].tileIndex,
      centerPixelIndex |-> arr[i].centerPixelIndex, colorsUsed |-> arr[i].colorsUsed,
      activeColors |-> arr[i].activeColors, placedPixelKeys |-> arr[i].placedPixelKeys,
      wrongPixelKeys |-> arr[i].wrongPixelKeys]]

\* C12: the overlay step of a draw, whatever the allow-list state of each
\* template, leaves the chunk bitmaps, tileIndex, centerPixelIndex,
\* colorsUsed, activeColors, placedPixelKeys and wrongPixelKeys of every
\* template as they were.
C12_OverlayFrame ==
  [][(drawing.pc = "overlay" /\ Overlaid(last'))
       => Canonical(templatesArray') = Canonical(templatesArray)]_vars

\* An overlay drew a filtered bitmap that differs from the chunk it was
\* made from, and the template still holds the chunk.
C12_Witness ==
  /\ Overlaid(last)
  /\ drawing.pc = "idle"
  /\ \E i \in 1 .. Len(templatesArray) :
       \E j \in 1 .. Len(MatchingTiles(templatesArray[i], TileCoordsKey(last.tile))) :
         LET t == templatesArray[i]
             key == MatchingTiles(t, TileCoordsKey(last.tile))[j]
         IN  /\ t.activeColors \notin {Null, {}}
             /\ \E k \in 1 .. Len(last.out.draws) :
                  /\ last.out.draws[k].bitmap # ObjGet(t.chunked, key)
                  /\ last.out.draws[k].bitmap.width = ObjGet(t.chunked, key).width
             /\ \E p \in DOMAIN ObjGet(t.chunked, key).data :
                  /\ ObjGet(t.chunked, key).data[p][4] # 0
                  /\ Disallowed(t, ObjGet(t.chunked, key), p)

NoChunkUnder(arr, tile) ==
  \A i \in 1 .. Len(arr) :
    \A j \in 1 .. Len(arr[i].chunked) : TileXYOf(arr[i].chunked[j].key) # TileCoordsKey(tile)

\* C14: a drawTemplateOnTile call made while templatesShouldBeDrawn is false,
\* or for a tile under which no loaded template has a chunk, ends at once
\* without error, returns the tile blob it was given, and leaves
\* placedPixelKeys and wrongPixelKeys of every template as they were.
C14_NothingToDraw ==
  [][(/\ drawing.pc = "idle"
      /\ last'.op \in {"draw", "drawBegin"}
      /\ (~templatesShouldBeDrawn \/ NoChunkUnder(templatesArray, last'.tile)))
       => /\ last'.op = "draw"
          /\ drawing' = NoDraw
          /\ last'.out = [kind |-> "tileBlob", base |-> last'.live, draws |-> << >>]
          /\ {Sets(templatesArray')[i] : i \in 1 .. Len(templatesArray')}
               = {Sets(templatesArray)[i] : i \in 1 .. Len(templatesArray)}]_vars

\* A draw of a tile without chunk returned the tile blob while drawing is
\* on and a template holds placed or wrong pixels of an earlier diff.
C14_Witness ==
  /\ last.op = "draw"
  /\ last.out.kind = "tileBlob"
  /\ last.live # NoLive
  /\ templatesShouldBeDrawn
  /\ NoChunkUnder(templatesArray, last.tile)
  /\ \E i \in 1 .. Len(templatesArray) :
       templatesArray[i].placedPixelKeys \union templatesArray[i].wrongPixelKeys # {}

\* The pixels, counted from the border of the template's first tile, at
\* which a chunk begins in one axis: the origin, and every tile border the
\* image crosses.
ChunkStarts(size, origin, extent) ==
  {origin} \union {g \in origin + 1 .. origin + extent - 1 : g % size = 0}

\* C15: every chunk key has four fields (tile X and Y of 4 digits, offsets
\* of 3 digits); parsed, the keys of the emitted chunks are exactly the tile
\* coordinates and the local offsets, within [0, tileSize), of the places
\* where the chunks begin; and the first two fields are the key
\* drawTemplateOnTile builds for that tile; for every configured tileSize.
C15_KeyRoundTrip ==
  creating.pc = "index" =>
    LET t == creating.template
        size == t.tileSize
        keys == {creating.templateTiles[j].key : j \in 1 .. Len(creating.templateTiles)}
    IN  /\ \A key \in keys :
             /\ Len(key) = 4
             /\ Len(key[1]) = 4 /\ Len(key[2]) = 4 /\ Len(key[3]) = 3 /\ Len(key[4]) = 3
             /\ Number(key[3]) \in 0 .. size - 1
             /\ Number(key[4]) \in 0 .. size - 1
             /\ TileXYOf(key) = TileCoordsKey(<<Number(key[1]), Number(key[2])>>)
        /\ {<<Number(key[1]), Number(key[2]), Number(key[3]), Number(key[4])>> : key \in keys}
             = {<<t.coords[1] + (sx \div size), t.coords[2] + (sy \div size), sx % size, sy % size>> :
                  sx \in ChunkStarts(size, t.coords[3], creating.blob.width),
                  sy \in ChunkStarts(size, t.coords[4], creating.blob.height)}

\* The sum over the chunks of an object of bitmaps of their logical width
\* times their logical height.
RECURSIVE ChunkArea(_, _)
ChunkArea(chunked, j) ==
  IF j > Len(chunked) THEN 0
  ELSE (chunked[j].val.width \div drawMult) * (chunked[j].val.height \div drawMult)
         + ChunkArea(chunked, j + 1)

\* C16: once a file is chunked the template's pixelCount is the file's
\* width times its height, transparent pixels included, and that is the sum
\* of the logical areas of the emitted chunks; every loaded template,
\* created or imported from the stored chunk bitmaps, has that sum as its
\* pixelCount.
C16_PixelCount ==
  /\ creating.pc \in {"index", "publish"}
       => /\ creating.template.pixelCount = creating.blob.width * creating.blob.height
          /\ creating.template.pixelCount = ChunkArea(creating.templateTiles, 1)
  /\ \A i \in 1 .. Len(templatesArray) :
       templatesArray[i].pixelCount = ChunkArea(templatesArray[i].chunked, 1)

\* An import has loaded a template of several chunks, one of them with a
\* transparent pixel, and counts every pixel of the image.
C16_Witness ==
  /\ last.op = "importJSON"
  /\ \E i \in 1 .. Len(templatesArray) :
       LET t == templatesArray[i]
       IN  /\ Len(t.chunked) > 1
           /\ t.pixelCount = MaxW * MaxH
           /\ \E j \in 1 .. Len(t.chunked) :
                t.chunked[j].val.data[<<1, 1>>][4] = 0

\* Template t has its chunks and both indexes in full: a bitmap for at least
\* one chunk, every chunk key listed in tileIndex under its tile, and a
\* centerPixelIndex entry of the chunk's logical size for exactly the chunk
\* keys.
Built(t) ==
  /\ Len(t.chunked) > 0
  /\ \A j \in 1 .. Len(t.chunked) :
       LET key == t.chunked[j].key
           bmp == t.chunked[j].val
       IN  /\ \E k \in 1 .. Len(MatchingTiles(t, TileXYOf(key))) :
                MatchingTiles(t, TileXYOf(key))[k] = key
           /\ ObjHas(t.centerPixelIndex, key)
           /\ ObjGet(t.centerPixelIndex, key).width = bmp.width \div drawMult
           /\ ObjGet(t.centerPixelIndex, key).height = bmp.height \div drawMult
  /\ \A j \in 1 .. Len(t.centerPixelIndex) : ObjHas(t.chunked, t.centerPixelIndex[j].key)

\* C17: every template a drawTemplateOnTile call can read, in
\* this.templatesArray or in the array a call in flight holds, has its
\* chunks, its tileIndex and its centerPixelIndex built in full, however
\* createTemplate, the import and the draws interleave at their awaits.
C17_VisibleBuilt ==
  /\ \A i \in 1 .. Len(templatesArray) : Built(templatesArray[i])
  /\ \A i \in 1 .. Len(drawing.templateArray) : Built(drawing.templateArray[i])

\* A draw is between its awaits on a loaded template while a createTemplate
\* call holds a template whose chunks are not attached yet, or an import
\* holds one it has not pushed.
C17_Witness ==
  /\ drawing.pc \in {"diff", "overlay"}
  /\ Len(templatesArray) > 0
  /\ \/ creating.pc = "index" /\ ~Built(creating.template)
     \/ importing.pc = "push"

\* The number of times key is listed in the tileIndex of template t.
Listed(t, key) ==
  LET RECURSIVE Count(_)
      Count(j) == IF j > Len(t.tileIndex) THEN 0
                  ELSE Cardinality({k \in 1 .. Len(t.tileIndex[j].val) :
                                      t.tileIndex[j].val[k] = key}) + Count(j + 1)
  IN  Count(1)

\* C18: in every template of templatesArray, each chunk key that tileIndex
\* lists has an entry in centerPixelIndex and a bitmap in chunked and is
\* listed under the tile key made of its own first two fields, and every
\* chunk key of the template is listed exactly once.
C18_IndexConsistent ==
  \A i \in 1 .. Len(templatesArray) :
    LET t == templatesArray[i]
    IN  /\ \A j \in 1 .. Len(t.tileIndex) :
             \A k \in 1 .. Len(t.tileIndex[j].val) :
               LET key == t.tileIndex[j].val[k]
               IN  /\ ObjHas(t.centerPixelIndex, key)
                   /\ ObjHas(t.chunked, key)
                   /\ t.tileIndex[j].key = <<key[1], key[2]>>
        /\ \A j \in 1 .. Len(t.chunked) : Listed(t, t.chunked[j].key) = 1

\* A published template has chunks under several tiles, in two tile rows.
C18_Witness ==
  /\ last.op = "publish"
  /\ \E i \in 1 .. Len(templatesArray) :
       /\ Len(templatesArray[i].tileIndex) > 2
       /\ \E j \in 1 .. Len(templatesArray[i].tileIndex) :
            templatesArray[i].tileIndex[j].key[1] # templatesArray[i].tileIndex[j].key[2]

\* The global coordinates of the logical pixels of template t whose
\* destination, chunk offset plus position in the chunk, is inside its tile.
InsideCoordinates(t) ==
  UNION {{e.g : e \in {f \in TemplatePixels(t, tile) :
                        /\ f.loc[1] \in 0 .. tileSize - 1
                        /\ f.loc[2] \in 0 .. tileSize - 1}} : tile \in Tiles}

\* C20: the diff skips a logical chunk pixel whose destination is outside
\* [0, tileSize): only coordinates of pixels with a destination inside
\* their tile are ever in placedPixelKeys or wrongPixelKeys, on both diff
\* paths, also for a chunk restored from storage whose key offset plus
\* bitmap size exceeds the tile.
C20_OutsideSkipped ==
  \A i \in 1 .. Len(templatesArray) :
    templatesArray[i].placedPixelKeys \union templatesArray[i].wrongPixelKeys
      \subseteq InsideCoordinates(templatesArray[i])

\* The coordinates whose membership in placed or in wrong differs between
\* the records a and b of one template.
Changed(a, b) ==
  ((a.placed \ b.placed) \union (b.placed \ a.placed))
    \union ((a.wrong \ b.wrong) \union (b.wrong \ a.wrong))

InTile(g, tile) == g[1] \div tileSize = tile[1] /\ g[2] \div tileSize = tile[2]

\* C19: a diff of base tile T changes the membership in placedPixelKeys and
\* wrongPixelKeys of coordinates inside T only, and followed by the diff of
\* another tile it leaves the sets the two diffs leave in the other order.
C19_TileLocal ==
  [][Diffed(last') =>
       LET before == Sets(SortBySortID(templatesArray))
           after == Sets(templatesArray')
       IN  /\ \A i \in 1 .. Len(after) :
                \A g \in Changed(before[i], after[i]) : InTile(g, last'.tile)
           /\ \A other \in Tiles \ {last'.tile} :
                \A live \in OverlayLives[other] :
                  Sets(DiffTile(useLegacyCount, templatesArray', other, live))
                    = Sets(DiffTile(useLegacyCount,
                                    DiffTile(useLegacyCount, templatesArray, other, live),
                                    last'.tile, last'.live))]_vars

\* The chunks of the call in flight that hold source pixel p of the file:
\* p lies in the rectangle the chunk's key and size give, and the chunk's
\* center sample for p is the pixel as the canvas stores it.
Holders(p) ==
  {j \in 1 .. Len(creating.templateTiles) :
     LET c == ChunkGeometry(j)
         x == c.x0 + p[1] - (c.tx * tileSize + c.ox)
         y == c.y0 + p[2] - (c.ty * tileSize + c.oy)
     IN  /\ x \in 0 .. c.w - 1
         /\ y \in 0 .. c.h - 1
         /\ creating.templateTiles[j].val.data[<<x * shreadSize + 1, y * shreadSize + 1>>]
              = Premul(creating.blob.data[p])}

\* The base tiles the file overlaps.
OverlappedTiles ==
  LET coords == creating.template.coords
  IN  {<<(coords[1] * tileSize + coords[3] + p[1]) \div tileSize,
         (coords[2] * tileSize + coords[4] + p[2]) \div tileSize>> : p \in DOMAIN creating.blob.data}

\* C21: for a file of positive width and height at any origin offset the
\* chunking loops end, every step of a loop advancing by a draw size of at
\* least 1, and the emitted chunks partition the image: every source pixel
\* is in exactly one chunk, every overlapped base tile has exactly one
\* chunk, and the chunks have as many keys as there are overlapped tiles.
C21_Partition ==
  Chunked =>
    LET coords == creating.template.coords
        size == creating.template.tileSize
        n == Len(creating.templateTiles)
    IN  /\ \A x \in 0 .. creating.blob.width - 1 :
             DrawSize(size, coords[3] + x, coords[3], creating.blob.width) >= 1
        /\ \A y \in 0 .. creating.blob.height - 1 :
             DrawSize(size, coords[4] + y, coords[4], creating.blob.height) >= 1
        /\ \A j \in 1 .. n : ChunkGeometry(j).w >= 1 /\ ChunkGeometry(j).h >= 1
        /\ \A p \in DOMAIN creating.blob.data : Cardinality(Holders(p)) = 1
        /\ \A tile \in OverlappedTiles :
             Cardinality({j \in 1 .. n : <<ChunkGeometry(j).tx, ChunkGeometry(j).ty>> = tile}) = 1
        /\ Cardinality({creating.templateTiles[j].key : j \in 1 .. n}) = n
        /\ n = Cardinality(OverlappedTiles)

\* A file of several colours that overlaps four base tiles, two of them in
\* a second tile row, has been chunked.
C21_Witness ==
  /\ creating.pc = "index"
  /\ Len(creating.templateTiles) = 4
  /\ Cardinality(OverlappedTiles) = 4
  /\ creating.blob.width > 2
  /\ \E p, q \in DOMAIN creating.blob.data : creating.blob.data[p] # creating.blob.data[q]

\* The global coordinates of the template pixels of t that carry a colour.
PaintedCoordinates(t) == UNION {{e.g : e \in Painted(t, tile)} : tile \in Tiles}

\* C22: whatever diffs and resets have run, every coordinate in
\* placedPixelKeys or wrongPixelKeys of a template is the global coordinate
\* of a non-transparent pixel of one of its chunks, and the two counts
\* together do not exceed the template's pixelCount.
C22_WithinTemplate ==
  \A i \in 1 .. Len(templatesArray) :
    LET t == templatesArray[i]
    IN  /\ t.placedPixelKeys \union t.wrongPixelKeys \subseteq PaintedCoordinates(t)
        /\ Cardinality(t.placedPixelKeys) + Cardinality(t.wrongPixelKeys) <= t.pixelCount

\* A diff has left placed and wrong pixels in a template that also has a
\* transparent pixel, at the snapshot's painted positions.
C22_Witness ==
  /\ Diffed(last)
  /\ \E i \in 1 .. Len(templatesArray) :
       LET t == templatesArray[i]
       IN  /\ t.placedPixelKeys # {}
           /\ t.wrongPixelKeys # {}
           /\ Cardinality(PaintedCoordinates(t)) < t.pixelCount
           /\ \E e \in TemplatePixels(t, last.tile) :
                e.px[4] = 0 /\ LivePixel(last.live, e.loc[1], e.loc[2])[4] # 0

====
